---- MODULE Spec2Model ----
(***************************************************************************)
(* Model of skeleton_synapses/locate_synapses_new.py: the per-node loop of *)
(* locate_synapses, SynapseSliceRelabeler.normalize_synapse_ids,           *)
(* write_synapses, intersection and slicing.                               *)
(*                                                                         *)
(* A roi is <<min, max>>, each a tuple <<x, y, z>> (roi_xyz[0], roi_xyz[1]).*)
(* A label image is [shape |-> <<w, h>>, data |-> [pixel -> label]] with   *)
(* 0-based pixel indices; the z axis of synapse_cc_xyz has extent 1 and is *)
(* left out.  Python's None is <<>> and a present value v is <<v>>.        *)
(***************************************************************************)
EXTENDS Integers, Sequences, FiniteSets, TLC

\* ------------------------------------------------------------------ bounds
MaxCoord == 2      \* roi minima lie in 0..MaxCoord on the first axis
MaxCoordY == 0     \* and in 0..MaxCoordY on the second
MaxPlane == 2      \* plane indices (z) lie in 0..MaxPlane
MaxExtentX == 3    \* roi extents and image widths lie in 1..MaxExtentX
MaxExtentY == 1    \* roi extents and image heights lie in 1..MaxExtentY
MaxRaw == 2        \* raw labels lie in -MaxNeg..MaxRaw
MaxNeg == 1
MaxNodes == 3      \* at most MaxNodes skeleton nodes in branchwise_rois
MaxPixels == 6     \* node count times roi width stays within MaxPixels

None == <<>>
Some(v) == <<v>>

Min(S) == CHOOSE m \in S : \A n \in S : m <= n
Max(S) == CHOOSE m \in S : \A n \in S : m >= n

RECURSIVE SortedSeq(_)
SortedSeq(S) == IF S = {} THEN <<>> ELSE <<Min(S)>> \o SortedSeq(S \ {Min(S)})

\* ------------------------------------------------------------ numpy pieces
Idx(shape) == (0..(shape[1] - 1)) \X (0..(shape[2] - 1))
Array(shape, f) == [shape |-> shape, data |-> f]
Values(a) == {a.data[p] : p \in DOMAIN a.data}

\* np.unique / vigra.analysis.unique: the distinct values, ascending
unique(a) == SortedSeq(Values(a))

\* s[1:]
Rest(s) == IF s = <<>> THEN <<>> ELSE Tail(s)

\* s[-1]
Last(s) == s[Len(s)]

\* a Python index into a sequence of length n: negative indices count from the end
PyIndex(i, n) == IF i < 0 THEN i + n ELSE i
InBounds(i, n) == PyIndex(i, n) >= 0 /\ PyIndex(i, n) < n

\* a[slicing]: basic slicing of the two leading axes; a negative start or stop
\* counts from the end, and both are clipped to the array's extent
ClipTo(c, n) ==
    LET k == IF c < 0 THEN c + n ELSE c
    IN  IF k > n THEN n ELSE IF k < 0 THEN 0 ELSE k
GetItem(a, sl) ==
    LET lo == [i \in 1..2 |-> ClipTo(sl[i][1], a.shape[i])]
        hi == [i \in 1..2 |-> ClipTo(sl[i][2], a.shape[i])]
        shape == [i \in 1..2 |-> IF hi[i] > lo[i] THEN hi[i] - lo[i] ELSE 0]
    IN  Array(<<shape[1], shape[2]>>,
              [p \in Idx(shape) |-> a.data[<<p[1] + lo[1], p[2] + lo[2]>>]])

\* a[mask == cc]: boolean-mask indexing.  With equal shapes it selects the
\* pixels of a where mask is cc.  With unequal shapes a numpy that enforces
\* the shape match raises IndexError; an older numpy warns, uses the
\* coordinates of the True entries and raises only if one lies outside a.
MaskHits(mask, cc) == {p \in DOMAIN mask.data : mask.data[p] = cc}
BoolIndexRaises(a, mask, cc, strict) ==
    /\ a.shape # mask.shape
    /\ strict \/ ~(MaskHits(mask, cc) \subseteq DOMAIN a.data)
BoolIndex(a, mask, cc) == {a.data[p] : p \in MaskHits(mask, cc)}

\* relabel[a]: integer-array indexing, elementwise
TakeRaises(relabel, n, a) == \E v \in Values(a) : ~InBounds(v, n)
Take(relabel, n, a) == Array(a.shape, [p \in DOMAIN a.data |-> relabel[PyIndex(a.data[p], n)]])

\* ------------------------------------------------- intersection / slicing
Maximum(u, v) == [i \in DOMAIN u |-> IF u[i] >= v[i] THEN u[i] ELSE v[i]]
Minimum(u, v) == [i \in DOMAIN u |-> IF u[i] <= v[i] THEN u[i] ELSE v[i]]
Translate(roi, off) == [r \in 1..2 |-> [i \in DOMAIN off |-> roi[r][i] - off[i]]]

\* boxes that only touch taken as overlapping
Overlaps_Closed(out) == \A i \in DOMAIN out[1] : out[2][i] >= out[1][i]

\* (out[1] > out[0]).all()
Overlaps(out) == \A i \in DOMAIN out[1] : out[2][i] > out[1][i]

\* the two relative frames handed back in each other's place
intersection_SwappedFrames(roi_a, roi_b) ==
    LET out == <<Maximum(roi_a[1], roi_b[1]), Minimum(roi_a[2], roi_b[2])>>
    IN  IF ~(\A i \in DOMAIN out[1] : out[2][i] > out[1][i])
        THEN <<None, None, None>>
        ELSE <<Some(out), Some(Translate(out, roi_b[1])), Some(Translate(out, roi_a[1]))>>

\* both relative boxes taken relative to roi_a
intersection_FirstFrameOnly(roi_a, roi_b) ==
    LET out == <<Maximum(roi_a[1], roi_b[1]), Minimum(roi_a[2], roi_b[2])>>
    IN  IF ~Overlaps(out)
        THEN <<None, None, None>>
        ELSE <<Some(out), Some(Translate(out, roi_a[1])), Some(Translate(out, roi_a[1]))>>

\* lines 432-458
intersection(roi_a, roi_b) ==
    LET out == <<Maximum(roi_a[1], roi_b[1]), Minimum(roi_a[2], roi_b[2])>>
    IN  IF ~Overlaps(out)
        THEN <<None, None, None>>
        ELSE <<Some(out), Some(Translate(out, roi_a[1])), Some(Translate(out, roi_b[1]))>>

\* tuple(starmap(slice, zip(*roi))): one <<start, stop>> per axis
slicing(roi) == [i \in DOMAIN roi[1] |-> <<roi[1][i], roi[2][i]>>]

\* roi[:, :-1]
Roi2d(roi) == [r \in 1..2 |-> SubSeq(roi[r], 1, Len(roi[r]) - 1)]

\* ------------------------------------------------ SynapseSliceRelabeler
\* The relabeler object: self.max_label, self.previous_slice, self.previous_roi
Relabeler(m, ps, pr) == [max_label |-> m, previous_slice |-> ps, previous_roi |-> pr]

\* outcome of one call: the object's fields afterwards and the returned image,
\* or the exception that left the call
Returned(self, image) == [raised |-> FALSE, exc |-> "", self |-> self, ret |-> Some(image)]
Raised(self, exc) == [raised |-> TRUE, exc |-> exc, self |-> self, ret |-> None]

Abs(i) == IF i < 0 THEN -i ELSE i

\* the test of the legacy normalize_synapse_ids: current plane is not previous + 1
PlaneGap_Legacy(current_roi, previous_roi) == current_roi[1][3] # previous_roi[1][3] + 1

\* a gap of one skipped plane let through
PlaneGap_Wide(current_roi, previous_roi) == Abs(current_roi[1][3] - previous_roi[1][3]) > 2

\* abs(int(current_roi[0,2]) - int(previous_roi[0,2])) > 1
PlaneGap(current_roi, previous_roi) == Abs(current_roi[1][3] - previous_roi[1][3]) > 1

\* lines 323-328: the three forms of the in-plane intersection with the stored roi
IntersectionWithPrevious(self, current_roi) ==
    IF self.previous_roi # None
    THEN intersection(Roi2d(current_roi), Roi2d(self.previous_roi[1]))
    ELSE <<None, None, None>>

\* line 330: the condition under which the slice is relabeled from max_label
TakesFreshPath(self, current_roi) ==
    \/ IntersectionWithPrevious(self, current_roi)[1] = None
    \/ self.previous_slice = None
    \/ PlaneGap(current_roi, self.previous_roi[1])

\* the new ids start at max_label instead of max_label + 1
FreshTable_FromMax(current_unique_labels, max_label) ==
    [l \in 0..Last(current_unique_labels) |->
        IF \E k \in 2..Len(current_unique_labels) : current_unique_labels[k] = l
        THEN max_label + (CHOOSE k \in 2..Len(current_unique_labels) : current_unique_labels[k] = l) - 2
        ELSE 0]

\* the raw labels shifted by max_label, as if they were consecutive
FreshTable_Shifted(current_unique_labels, max_label) ==
    [l \in 0..Last(current_unique_labels) |->
        IF \E k \in 2..Len(current_unique_labels) : current_unique_labels[k] = l
        THEN max_label + l
        ELSE 0]

\* every nonzero label of the slice given the one id max_label + 1
FreshTable_OneId(current_unique_labels, max_label) ==
    [l \in 0..Last(current_unique_labels) |->
        IF \E k \in 2..Len(current_unique_labels) : current_unique_labels[k] = l
        THEN max_label + 1
        ELSE 0]

\* lines 345-347: relabel = zeros(max_current_label+1);
\* relabel[current_unique_labels[1:]] = arange(max_label+1, new_max_label+1)
FreshTable(current_unique_labels, max_label) ==
    [l \in 0..Last(current_unique_labels) |->
        IF \E k \in 2..Len(current_unique_labels) : current_unique_labels[k] = l
        THEN max_label + (CHOOSE k \in 2..Len(current_unique_labels) : current_unique_labels[k] = l) - 1
        ELSE 0]

\* the stored previous slice and roi dropped before the assertion is reached
FreshRelabel_ClearFirst(self, current_slice, current_roi) ==
    LET current_unique_labels == unique(current_slice)
        cleared == Relabeler(self.max_label, None, None)
    IN  IF current_unique_labels[1] # 0
        THEN Raised(cleared, "AssertionError")
        ELSE IF Len(current_unique_labels) = 1
        THEN Returned(cleared, current_slice)
        ELSE LET max_current_label == Last(current_unique_labels)
                 new_max_label == self.max_label + Len(current_unique_labels) - 1
                 relabel == FreshTable(current_unique_labels, self.max_label)
                 relabeled_slice == Take(relabel, max_current_label + 1, current_slice)
             IN  Returned(Relabeler(new_max_label, Some(relabeled_slice), Some(current_roi)),
                          relabeled_slice)

\* max_label set to the number of labels of this slice, the earlier count lost
FreshRelabel_ForgetMax(self, current_slice, current_roi) ==
    LET current_unique_labels == unique(current_slice)
    IN  IF current_unique_labels[1] # 0
        THEN Raised(self, "AssertionError")
        ELSE IF Len(current_unique_labels) = 1
        THEN Returned(Relabeler(self.max_label, None, None), current_slice)
        ELSE LET max_current_label == Last(current_unique_labels)
                 new_max_label == Len(current_unique_labels) - 1
                 relabel == FreshTable(current_unique_labels, 0)
                 relabeled_slice == Take(relabel, max_current_label + 1, current_slice)
             IN  Returned(Relabeler(new_max_label, Some(relabeled_slice), Some(current_roi)),
                          relabeled_slice)

\* lines 336-352
FreshRelabel(self, current_slice, current_roi) ==
    LET current_unique_labels == unique(current_slice)
    IN  IF current_unique_labels[1] # 0
        THEN Raised(self, "AssertionError")
        ELSE IF Len(current_unique_labels) = 1
        THEN Returned(Relabeler(self.max_label, None, None), current_slice)
        ELSE LET max_current_label == Last(current_unique_labels)
                 new_max_label == self.max_label + Len(current_unique_labels) - 1
                 relabel == FreshTable(current_unique_labels, self.max_label)
                 relabeled_slice == Take(relabel, max_current_label + 1, current_slice)
             IN  Returned(Relabeler(new_max_label, Some(relabeled_slice), Some(current_roi)),
                          relabeled_slice)

\* a label already claimed by a previous object keeps its first claimant
RECURSIVE AssignEach_KeepFirst(_, _, _, _)
AssignEach_KeepFirst(relabel, n, current_labels, cc) ==
    IF current_labels = <<>>
    THEN relabel
    ELSE LET i == PyIndex(Head(current_labels), n)
         IN  AssignEach_KeepFirst(IF relabel[i] = 0 THEN [relabel EXCEPT ![i] = cc] ELSE relabel,
                                  n, Tail(current_labels), cc)

\* lines 367-368: for cur_label in current_labels: relabel[cur_label] = cc
RECURSIVE AssignEach(_, _, _, _)
AssignEach(relabel, n, current_labels, cc) ==
    IF current_labels = <<>>
    THEN relabel
    ELSE AssignEach([relabel EXCEPT ![PyIndex(Head(current_labels), n)] = cc],
                    n, Tail(current_labels), cc)

\* lines 365-368: for cc in previous_slice_objects: ...
RECURSIVE ClaimFromPrevious(_, _, _, _, _)
ClaimFromPrevious(relabel, n, previous_slice_objects, current_intersection_slice, prev_intersection_slice) ==
    IF previous_slice_objects = <<>>
    THEN relabel
    ELSE LET cc == Head(previous_slice_objects)
             current_labels == SortedSeq(BoolIndex(current_intersection_slice, prev_intersection_slice, cc))
         IN  ClaimFromPrevious(AssignEach(relabel, n, current_labels, cc), n,
                               Tail(previous_slice_objects),
                               current_intersection_slice, prev_intersection_slice)

\* the IndexErrors lines 366 and 368 can raise
ClaimRaises(n, previous_slice_objects, current_intersection_slice, prev_intersection_slice, strict) ==
    \E k \in 1..Len(previous_slice_objects) :
        \/ BoolIndexRaises(current_intersection_slice, prev_intersection_slice,
                           previous_slice_objects[k], strict)
        \/ \E cur_label \in BoolIndex(current_intersection_slice, prev_intersection_slice,
                                      previous_slice_objects[k]) : ~InBounds(cur_label, n)

\* new ids handed out without max_label keeping up with them
RECURSIVE AllocateNew_NoCount(_, _, _, _)
AllocateNew_NoCount(relabel, n, current_slice_objects, new_max_label) ==
    IF current_slice_objects = <<>>
    THEN [relabel |-> relabel, new_max_label |-> new_max_label]
    ELSE LET i == PyIndex(Head(current_slice_objects), n)
         IN  IF relabel[i] = 0
             THEN LET rest == AllocateNew_NoCount([relabel EXCEPT ![i] = new_max_label + 1], n,
                                                  Tail(current_slice_objects), new_max_label + 1)
                  IN  [relabel |-> rest.relabel, new_max_label |-> new_max_label]
             ELSE AllocateNew_NoCount(relabel, n, Tail(current_slice_objects), new_max_label)

\* the first new object given max_label itself, an id handed out before
RECURSIVE AllocateNew_ReuseLast(_, _, _, _)
AllocateNew_ReuseLast(relabel, n, current_slice_objects, new_max_label) ==
    IF current_slice_objects = <<>>
    THEN [relabel |-> relabel, new_max_label |-> new_max_label]
    ELSE LET i == PyIndex(Head(current_slice_objects), n)
         IN  IF relabel[i] = 0
             THEN AllocateNew_ReuseLast([relabel EXCEPT ![i] = new_max_label], n,
                                        Tail(current_slice_objects), new_max_label + 1)
             ELSE AllocateNew_ReuseLast(relabel, n, Tail(current_slice_objects), new_max_label)

\* lines 370-374: for cur_object in current_slice_objects: if relabel[cur_object] == 0: ...
RECURSIVE AllocateNew(_, _, _, _)
AllocateNew(relabel, n, current_slice_objects, new_max_label) ==
    IF current_slice_objects = <<>>
    THEN [relabel |-> relabel, new_max_label |-> new_max_label]
    ELSE LET i == PyIndex(Head(current_slice_objects), n)
         IN  IF relabel[i] = 0
             THEN AllocateNew([relabel EXCEPT ![i] = new_max_label + 1], n,
                              Tail(current_slice_objects), new_max_label + 1)
             ELSE AllocateNew(relabel, n, Tail(current_slice_objects), new_max_label)

AllocateRaises(n, current_slice_objects) ==
    \E k \in 1..Len(current_slice_objects) : ~InBounds(current_slice_objects[k], n)

\* lines 354-383
ContinuityRelabel(self, current_slice, current_roi, strict) ==
    LET inter == IntersectionWithPrevious(self, current_roi)
        current_intersection_slice == GetItem(current_slice, slicing(inter[2][1]))
        prev_intersection_slice == GetItem(self.previous_slice[1], slicing(inter[3][1]))
        \* omit label 0
        previous_slice_objects == Rest(unique(self.previous_slice[1]))
        current_slice_objects == Rest(unique(current_slice))
    IN  IF current_slice_objects = <<>>
        THEN \* max(0, *current_slice_objects) is max(0)
             Raised(self, "TypeError")
        ELSE
        LET max_current_object == Max({0} \cup {current_slice_objects[k] : k \in 1..Len(current_slice_objects)})
            n == max_current_object + 1
            zeros == [l \in 0..max_current_object |-> 0]
        IN  IF ClaimRaises(n, previous_slice_objects, current_intersection_slice,
                           prev_intersection_slice, strict)
            THEN Raised(self, "IndexError")
            ELSE IF AllocateRaises(n, current_slice_objects)
            THEN Raised(self, "IndexError")
            ELSE
            LET claimed == ClaimFromPrevious(zeros, n, previous_slice_objects,
                                             current_intersection_slice, prev_intersection_slice)
                alloc == AllocateNew(claimed, n, current_slice_objects, self.max_label)
                \* Relabel the entire current slice
                relabel == [alloc.relabel EXCEPT ![0] = 0]
            IN  IF TakeRaises(relabel, n, current_slice)
                THEN Raised(self, "IndexError")
                ELSE LET relabeled_slice == Take(relabel, n, current_slice)
                     IN  Returned(Relabeler(alloc.new_max_label, Some(relabeled_slice),
                                            Some(current_roi)),
                                  relabeled_slice)

\* lines 307-383
normalize_synapse_ids(self, current_slice, current_roi, strict) ==
    IF TakesFreshPath(self, current_roi)
    THEN FreshRelabel(self, current_slice, current_roi)
    ELSE ContinuityRelabel(self, current_slice, current_roi, strict)

\* --------------------------------------------------------- write_synapses
\* lines 387-388: set(synapse_cc_xyz.flat).remove(0) raises KeyError without a 0
WriteRaises(synapse_cc) == 0 \notin Values(synapse_cc)

\* lines 389-429: one row per id of the image
SynapseRows(synapse_cc, roi) ==
    {[synapse_id |-> sid,
      z_px |-> roi[1][3],
      size_px |-> Cardinality({p \in DOMAIN synapse_cc.data : synapse_cc.data[p] = sid})]
        : sid \in Values(synapse_cc) \ {0}}

\* ------------------------------------------------------------ the inputs
Rois ==
    {<<<<x, y, z>>, <<x + ex, y + ey, z + 1>>>> :
        x \in 0..MaxCoord, y \in 0..MaxCoordY, z \in 0..MaxPlane,
        ex \in 1..MaxExtentX, ey \in 1..MaxExtentY}

RawLabels == (-MaxNeg)..MaxRaw

\* lines 170-177: the predictions are requested for the node's roi, so the
\* thresholded image has the roi's in-plane extent
SliceShape(roi) == <<roi[2][1] - roi[1][1], roi[2][2] - roi[1][2]>>
ThresholdOutputs(roi) ==
    {Array(SliceShape(roi), f) : f \in [Idx(SliceShape(roi)) -> RawLabels]}

\* the rois of a skeleton of n nodes: the longer the skeleton, the narrower
NodeRois(n) == {roi \in Rois : n * SliceShape(roi)[1] <= MaxPixels}

\* ------------------------------------------------------------- the state
VARIABLES
    max_label,           \* relabeler.max_label
    previous_slice,      \* relabeler.previous_slice
    previous_roi,        \* relabeler.previous_roi
    pc,                  \* position in the node loop of locate_synapses
    node_overall_index,
    branch_index,        \* position in branchwise_rois
    node_index_in_branch,
    roi_xyz,             \* roi of the node being processed
    synapse_cc_xyz,      \* label image of the node being processed
    rows,                \* rows written for the node being processed
    reported,            \* max_label last passed to progress_callback
    skeleton_node_count, \* number of nodes in branchwise_rois
    call,                \* record of the normalize call of the current node
    emitted,             \* ids in the images returned by all calls so far
    retired              \* ids handed out so far that some returned image lacked

vars == <<max_label, previous_slice, previous_roi, pc, node_overall_index, branch_index,
          node_index_in_branch, roi_xyz, synapse_cc_xyz, rows, reported,
          skeleton_node_count, call, emitted, retired>>

relabeler == Relabeler(max_label, previous_slice, previous_roi)

Init ==
    /\ max_label = 0
    /\ previous_slice = None
    /\ previous_roi = None
    /\ pc = "node"
    /\ node_overall_index = -1
    /\ branch_index = -1
    /\ node_index_in_branch = -1
    /\ roi_xyz = None
    /\ synapse_cc_xyz = None
    /\ rows = {}
    /\ reported = 0
    /\ skeleton_node_count \in 0..MaxNodes
    /\ call = None
    /\ emitted = {}
    /\ retired = {}

\* the legacy driver: the stored previous slice and roi dropped at each new branch
Predict_ResetPerBranch ==
    /\ pc = "node"
    /\ node_overall_index + 1 < skeleton_node_count
    /\ node_overall_index' = node_overall_index + 1
    /\ \/ /\ branch_index' = branch_index + 1
          /\ node_index_in_branch' = 0
          /\ previous_slice' = None
          /\ previous_roi' = None
       \/ /\ node_index_in_branch >= 0
          /\ branch_index' = branch_index
          /\ node_index_in_branch' = node_index_in_branch + 1
          /\ UNCHANGED <<previous_slice, previous_roi>>
    /\ \E roi \in NodeRois(skeleton_node_count) : roi_xyz' = Some(roi)
    /\ synapse_cc_xyz' = None
    /\ rows' = {}
    /\ call' = None
    /\ pc' = "normalize"
    /\ UNCHANGED <<max_label, reported, skeleton_node_count, emitted, retired>>

\* lines 153-177: the next node of branchwise_rois is taken and classified
Predict ==
    /\ pc = "node"
    /\ node_overall_index + 1 < skeleton_node_count
    /\ node_overall_index' = node_overall_index + 1
    /\ \/ /\ branch_index' = branch_index + 1
          /\ node_index_in_branch' = 0
       \/ /\ node_index_in_branch >= 0
          /\ branch_index' = branch_index
          /\ node_index_in_branch' = node_index_in_branch + 1
    /\ \E roi \in NodeRois(skeleton_node_count) : roi_xyz' = Some(roi)
    /\ synapse_cc_xyz' = None
    /\ rows' = {}
    /\ call' = None
    /\ pc' = "normalize"
    /\ UNCHANGED <<max_label, previous_slice, previous_roi, reported, skeleton_node_count,
                   emitted, retired>>

\* lines 170-177: prediction or thresholding raises; nothing in the loop catches it
PredictRaises ==
    /\ pc = "node"
    /\ node_overall_index + 1 < skeleton_node_count
    /\ node_overall_index' = node_overall_index + 1
    /\ \/ /\ branch_index' = branch_index + 1
          /\ node_index_in_branch' = 0
       \/ /\ node_index_in_branch >= 0
          /\ branch_index' = branch_index
          /\ node_index_in_branch' = node_index_in_branch + 1
    /\ \E roi \in NodeRois(skeleton_node_count) : roi_xyz' = Some(roi)
    /\ synapse_cc_xyz' = None
    /\ rows' = {}
    /\ call' = None
    /\ pc' = "aborted"
    /\ UNCHANGED <<max_label, previous_slice, previous_roi, reported, skeleton_node_count,
                   emitted, retired>>

\* line 180: the thresholded image of the node is relabeled.  Both images
\* fit their rois here, so the two cuts of line 356-357 have one shape and
\* numpy's strictness about mask shapes makes no difference to the call.
Normalize ==
    /\ pc = "normalize"
    /\ \E current_slice \in ThresholdOutputs(roi_xyz[1]) :
        \E r \in {normalize_synapse_ids(relabeler, current_slice, roi_xyz[1], TRUE)} :
            /\ max_label' = r.self.max_label
            /\ previous_slice' = r.self.previous_slice
            /\ previous_roi' = r.self.previous_roi
            /\ synapse_cc_xyz' = IF r.raised THEN Some(current_slice) ELSE r.ret
            /\ pc' = IF r.raised THEN "aborted" ELSE "write"
            /\ call' = Some([current_slice |-> current_slice,
                             self |-> relabeler,
                             path |-> IF TakesFreshPath(relabeler, roi_xyz[1])
                                      THEN "fresh" ELSE "continuity",
                             emitted |-> emitted,
                             retired |-> retired,
                             raised |-> r.raised])
            /\ emitted' = IF r.raised THEN emitted
                          ELSE emitted \cup (Values(r.ret[1]) \ {0})
            /\ retired' = IF r.raised THEN retired
                          ELSE retired \cup ((1..r.self.max_label) \ Values(r.ret[1]))
    /\ UNCHANGED <<node_overall_index, branch_index, node_index_in_branch, roi_xyz, rows,
                   reported, skeleton_node_count>>

\* lines 185-190
WriteSynapses ==
    /\ pc = "write"
    /\ IF WriteRaises(synapse_cc_xyz[1])
       THEN pc' = "aborted" /\ rows' = rows
       ELSE pc' = "progress" /\ rows' = SynapseRows(synapse_cc_xyz[1], roi_xyz[1])
    /\ call' = None
    /\ UNCHANGED <<max_label, previous_slice, previous_roi, node_overall_index,
                   branch_index, node_index_in_branch, roi_xyz, synapse_cc_xyz, reported,
                   skeleton_node_count, emitted, retired>>

\* lines 193-199
Progress ==
    /\ pc = "progress"
    /\ reported' = max_label
    /\ pc' = "node"
    /\ UNCHANGED <<max_label, previous_slice, previous_roi, node_overall_index,
                   branch_index, node_index_in_branch, roi_xyz, synapse_cc_xyz, rows,
                   skeleton_node_count, call, emitted, retired>>

\* the loops of lines 153 and 156 run out of nodes
Finish ==
    /\ pc = "node"
    /\ node_overall_index + 1 = skeleton_node_count
    /\ pc' = "done"
    /\ UNCHANGED <<max_label, previous_slice, previous_roi, node_overall_index,
                   branch_index, node_index_in_branch, roi_xyz, synapse_cc_xyz, rows,
                   reported, skeleton_node_count, call, emitted, retired>>

Next == Predict \/ PredictRaises \/ Normalize \/ WriteSynapses \/ Progress \/ Finish

Spec == Init /\ [][Next]_vars

\* ====================================================================
\* The normalize call of the current node, as seen right after it: the
\* relabeler before the call, the raw image passed in, and the image returned.
Called == call # None
CallReturned == Called /\ ~call[1].raised
CallRaised == Called /\ call[1].raised
Pre == call[1].self
Raw == call[1].current_slice
Out == synapse_cc_xyz[1]
CurRoi == roi_xyz[1]
StoredPrevious == Pre.previous_slice # None /\ Pre.previous_roi # None
PrevSlice == Pre.previous_slice[1]
PrevRoi == Pre.previous_roi[1]
Ids(a) == Values(a) \ {0}
PlaneDiff == Abs(CurRoi[1][3] - PrevRoi[1][3])

\* the in-plane projections of the two boxes share at least one pixel
BoxesIntersect == \A i \in 1..2 : CurRoi[1][i] < PrevRoi[2][i] /\ PrevRoi[1][i] < CurRoi[2][i]

\* the image has the extent of its box and no negative label
Extent(roi) == SliceShape(roi)
WellFormed(image, roi) == image.shape = Extent(roi) /\ \A v \in Values(image) : v >= 0

\* pixel p of the current image and pixel q of the previous image lie at the
\* same absolute position, inside both boxes
SamePlace(p, q) ==
    \A i \in 1..2 :
        /\ CurRoi[1][i] + p[i] = PrevRoi[1][i] + q[i]
        /\ CurRoi[1][i] + p[i] < CurRoi[2][i]
        /\ PrevRoi[1][i] + q[i] < PrevRoi[2][i]

\* raw label l shares a pixel with the previous object g
Touches(l, g) ==
    \E p \in DOMAIN Raw.data : \E q \in DOMAIN PrevSlice.data :
        Raw.data[p] = l /\ PrevSlice.data[q] = g /\ SamePlace(p, q)

TouchedBy(l) == {g \in Ids(PrevSlice) : Touches(l, g)}

\* the ids the returned image gives to the pixels of raw label l
OutIdsOf(l) == {Out.data[p] : p \in {q \in DOMAIN Raw.data : Raw.data[q] = l}}

ContinuityCall == Called /\ call[1].path = "continuity"
FreshCall == Called /\ call[1].path = "fresh"

\* --------------------------------------------------------------------
\* C1: an id given to an object that is not continued from the stored
\* previous slice (any id of a fresh relabel; in a continuity relabel any id
\* not present in the previous slice, and the id of any raw label that
\* touches no previous object) is greater than every id emitted by an
\* earlier call.
C1_NewIdsAboveEarlier ==
    CallReturned =>
        /\ \A id \in Ids(Out) :
              (FreshCall \/ id \notin Ids(PrevSlice)) =>
                  \A e \in call[1].emitted : id > e
        /\ (ContinuityCall /\ \A v \in Values(Raw) : v >= 0) =>
              \A l \in Ids(Raw) :
                  TouchedBy(l) = {} =>
                      \A id \in OutIdsOf(l) \ {0} : \A e \in call[1].emitted : id > e

\* a continuity relabel that hands out a new id next to a continued one
C1_Witness ==
    /\ CallReturned /\ ContinuityCall
    /\ call[1].emitted # {}
    /\ \E id \in Ids(Out) : id \notin Ids(PrevSlice)
    /\ \E id \in Ids(Out) : id \in Ids(PrevSlice)

\* --------------------------------------------------------------------
\* C2: with a stored previous slice, intersecting boxes and adjacent planes,
\* every raw label that shares a pixel with a previous object gets an id of
\* the previous slice, and exactly that object's id when it is the only one
\* it shares a pixel with.  (Stated for raw images that hold
\* no negative value.)
C2_Continuity ==
    (/\ CallReturned /\ StoredPrevious
     /\ PlaneDiff = 1 /\ BoxesIntersect
     /\ \A v \in Values(Raw) : v >= 0) =>
        \A l \in Ids(Raw) :
            TouchedBy(l) # {} =>
                /\ OutIdsOf(l) \subseteq Ids(PrevSlice)
                /\ \A g \in TouchedBy(l) : TouchedBy(l) = {g} => OutIdsOf(l) = {g}

\* a continuity relabel over partly overlapping boxes in which one raw label
\* continues a previous object and another one is new
C2_Witness ==
    /\ CallReturned /\ StoredPrevious /\ PlaneDiff = 1 /\ BoxesIntersect
    /\ CurRoi[1][1] # PrevRoi[1][1]
    /\ \A v \in Values(Raw) : v >= 0
    /\ \E l \in Ids(Raw) : \E g \in Ids(PrevSlice) : TouchedBy(l) = {g} /\ OutIdsOf(l) = {g}
    /\ \E l \in Ids(Raw) : TouchedBy(l) = {}

\* --------------------------------------------------------------------
\* the position of raw label l among the distinct nonzero labels, ascending
Rank(l) == Cardinality({m \in Ids(Raw) : m <= l})

FreshResult ==
    /\ CallReturned
    /\ \A l \in Ids(Raw) : OutIdsOf(l) = {Pre.max_label + Rank(l)}
    /\ max_label = Pre.max_label + Cardinality(Ids(Raw))
    /\ previous_slice = Some(Out)
    /\ previous_roi = Some(CurRoi)

\* C3 as stated: with no stored previous, a raw slice with k >= 1 distinct
\* nonzero labels gets the ids max_label+1..max_label+k in ascending label
\* order, max_label grows by k and the result is stored as the new previous.
\* (Stated for a raw image that fits its box and holds no negative value.)
C3_FreshRelabel_AsStated ==
    (/\ Called /\ ~StoredPrevious /\ Ids(Raw) # {}
     /\ WellFormed(Raw, CurRoi)) => FreshResult

\* C3 as amended: the same, for a raw slice that has at least one background
\* pixel and no negative value; a raw slice without background pixel, or
\* with a negative value, makes the call raise.
C3_FreshRelabel ==
    (Called /\ ~StoredPrevious /\ Ids(Raw) # {}) =>
        IF 0 \in Values(Raw) /\ \A v \in Values(Raw) : v >= 0
        THEN FreshResult
        ELSE CallRaised

\* a fresh relabel of non-consecutive raw labels on a relabeler that has
\* handed out ids before and holds no previous slice
C3_Witness ==
    /\ CallReturned /\ ~StoredPrevious
    /\ Pre.max_label > 0
    /\ 0 \in Values(Raw)
    /\ 1 \notin Values(Raw)
    /\ Ids(Raw) # {}

\* --------------------------------------------------------------------
\* C4 as stated: continuity is attempted only for a plane difference of
\* exactly 1; for any other difference, 0 included, the call is a fresh
\* relabel that inherits no id of the previous slice.  (Stated for images
\* that fit their boxes and hold no negative value.)
C4_Eligibility_AsStated ==
    (/\ CallReturned /\ StoredPrevious /\ PlaneDiff # 1
     /\ WellFormed(Raw, CurRoi) /\ WellFormed(PrevSlice, PrevRoi)) =>
        Ids(Out) \cap Ids(PrevSlice) = {}

\* C4 as amended: continuity is attempted only for a plane difference of at
\* most 1, and is attempted for differences 0 and 1 alike when the boxes
\* intersect; for a difference of 2 or more the call is a fresh relabel that
\* inherits no id of the previous slice.
C4_Eligibility ==
    (Called /\ StoredPrevious) =>
        /\ ContinuityCall => PlaneDiff <= 1
        /\ (PlaneDiff <= 1 /\ BoxesIntersect) => ContinuityCall
        /\ PlaneDiff > 1 => FreshCall
        /\ (PlaneDiff > 1 /\ CallReturned) => Ids(Out) \cap Ids(PrevSlice) = {}

\* a slice on the same plane as the previous one inherits an id
C4_Witness ==
    /\ CallReturned /\ StoredPrevious
    /\ PlaneDiff = 0
    /\ Ids(Out) \cap Ids(PrevSlice) # {}

\* --------------------------------------------------------------------
\* C5: with a plane difference of 2 or more the output holds only new ids,
\* max_label+1 .. max_label+k, whatever the boxes and labels overlap.
C5_BreakOnGap ==
    (CallReturned /\ StoredPrevious /\ PlaneDiff >= 2) =>
        Ids(Out) = (Pre.max_label + 1)..(Pre.max_label + Cardinality(Ids(Raw)))

\* a gap of two planes, intersecting boxes and a raw label over a previous object
C5_Witness ==
    /\ CallReturned /\ StoredPrevious /\ PlaneDiff >= 2 /\ BoxesIntersect
    /\ \E l \in Ids(Raw) : TouchedBy(l) # {}

\* --------------------------------------------------------------------
\* C6: adjacent planes whose boxes do not intersect in the plane, touching
\* boxes included: the call takes the fresh path and every id in the output
\* is above the max_label it started from.
C6_BreakOnNoOverlap ==
    (Called /\ StoredPrevious /\ PlaneDiff = 1 /\ ~BoxesIntersect) =>
        /\ FreshCall
        /\ CallReturned => \A id \in Ids(Out) : id > Pre.max_label

\* boxes that only touch along x, on adjacent planes
C6_Witness ==
    /\ CallReturned /\ StoredPrevious /\ PlaneDiff = 1
    /\ CurRoi[1][1] = PrevRoi[2][1]
    /\ CurRoi[1][2] = PrevRoi[1][2]
    /\ Ids(Out) # {}

\* --------------------------------------------------------------------
\* C7: a raw slice without nonzero label is accepted in every relabeler
\* state: the call returns an all-zero image, leaves max_label alone and
\* leaves the stored previous slice and roi cleared.  (Stated for images
\* that fit their boxes.)
C7_EmptySliceValid ==
    (/\ Called /\ Values(Raw) = {0}
     /\ WellFormed(Raw, CurRoi)
     /\ StoredPrevious => WellFormed(PrevSlice, PrevRoi)) =>
        /\ CallReturned
        /\ Values(Out) = {0}
        /\ max_label = Pre.max_label
        /\ previous_slice = None
        /\ previous_roi = None

\* --------------------------------------------------------------------
\* C8: a step that ends in an exception leaves max_label, previous_slice
\* and previous_roi as they were, and the three fields change only in a
\* normalize call that returns.
C8_AtomicUpdate ==
    [][/\ pc' = "aborted" => relabeler' = relabeler
       /\ relabeler' # relabeler => (pc = "normalize" /\ pc' = "write")]_vars

\* a call that raised on a relabeler holding a previous slice
C8_Witness ==
    /\ CallRaised /\ StoredPrevious
    /\ Pre.max_label > 0

\* --------------------------------------------------------------------
\* C9: a call whose raw image holds a negative value, or whose box extent
\* differs from the image's shape, raises and leaves the relabeler alone.
C9_FailFast ==
    (Called /\ ~WellFormed(Raw, CurRoi)) => (CallRaised /\ relabeler = Pre)

\* --------------------------------------------------------------------
\* C10: a failure at one node does not end the traversal: the loop stops
\* only once every node of branchwise_rois has been taken.
C10_ErrorLocality ==
    pc = "aborted" => node_overall_index + 1 = skeleton_node_count

\* --------------------------------------------------------------------
\* C11: max_label never decreases, whatever a call does (fresh relabel,
\* continuity relabel, empty slice, exception), and so the value passed to
\* the progress callback never decreases from one node to the next.
C11_Monotone ==
    [][max_label' >= max_label /\ reported' >= reported]_vars

\* a second node whose call raised max_label above the value last reported
C11_Witness ==
    /\ CallReturned
    /\ reported > 0
    /\ max_label > reported

\* --------------------------------------------------------------------
\* C12: every nonzero id returned by a call so far, and every nonzero id of
\* the stored previous slice, is at most max_label.
C12_MaxLabelBounds ==
    /\ \A e \in emitted : e <= max_label
    /\ previous_slice # None => \A id \in Ids(previous_slice[1]) : id <= max_label

\* a continuity relabel that handed out a new id next to an inherited one
C12_Witness ==
    /\ CallReturned /\ ContinuityCall
    /\ max_label > Pre.max_label
    /\ max_label \in Ids(previous_slice[1])
    /\ Ids(Out) \cap call[1].emitted # {}

\* --------------------------------------------------------------------
\* the nonzero ids that the returned image gives to pixels of both raw labels
SharedIds(l1, l2) == (OutIdsOf(l1) \cap OutIdsOf(l2)) \ {0}

\* C13 as stated: in the image a call returns, two distinct raw labels never
\* carry the same nonzero id, on the fresh and on the continuity path.
\* (Stated for a raw image that fits its box and holds no negative value.)
C13_Uniqueness_AsStated ==
    (CallReturned /\ WellFormed(Raw, CurRoi)) =>
        \A l1, l2 \in Ids(Raw) : l1 # l2 => SharedIds(l1, l2) = {}

\* C13 as amended: two distinct raw labels carry the same nonzero id only in
\* a continuity relabel, and only an id of the stored previous slice whose
\* object both of them overlap; ids of a fresh relabel and newly allocated
\* ids are never shared.
C13_Uniqueness ==
    (CallReturned /\ WellFormed(Raw, CurRoi)) =>
        \A l1, l2 \in Ids(Raw) :
            l1 # l2 =>
                \A g \in SharedIds(l1, l2) :
                    /\ ContinuityCall
                    /\ g \in TouchedBy(l1) \cap TouchedBy(l2)

\* a continuity relabel in which one previous object is continued by two raw
\* labels, next to a raw label that gets an id of its own
C13_Witness ==
    /\ CallReturned /\ ContinuityCall /\ WellFormed(Raw, CurRoi)
    /\ \E l1, l2 \in Ids(Raw) : l1 # l2 /\ SharedIds(l1, l2) # {}

\* --------------------------------------------------------------------
\* the node being processed is the first one of a branch other than the first
FirstOfLaterBranch == node_index_in_branch = 0 /\ branch_index > 0

\* the outcome of a call that continued the stored previous slice, and of one
\* that did not
ContinuesIds == \A l \in Ids(Raw) : TouchedBy(l) # {} => OutIdsOf(l) \subseteq TouchedBy(l)
StartsAfresh == \A id \in Ids(Out) : id > Pre.max_label

\* C14 as stated: taking the next node, at a branch boundary or not, leaves
\* the relabeler as the last node left it, and the first node of a later
\* branch continues the ids of the stored previous slice exactly when one is
\* stored, the boxes overlap and the planes are adjacent (difference 1).
C14_BranchPersistence_AsStated ==
    /\ [][pc = "node" => relabeler' = relabeler]_vars
    /\ []((/\ FirstOfLaterBranch /\ CallReturned
           /\ \A v \in Values(Raw) : v >= 0) =>
              IF StoredPrevious /\ BoxesIntersect /\ PlaneDiff = 1
              THEN ContinuesIds
              ELSE StartsAfresh)

\* C14 as amended: the same, with the plane test the code applies: the
\* planes differ by at most 1, the same plane included.
C14_BranchPersistence ==
    /\ [][pc = "node" => relabeler' = relabeler]_vars
    /\ []((/\ FirstOfLaterBranch /\ CallReturned
           /\ \A v \in Values(Raw) : v >= 0) =>
              IF StoredPrevious /\ BoxesIntersect /\ PlaneDiff <= 1
              THEN ContinuesIds
              ELSE StartsAfresh)

\* the first node of a second branch takes over an id from the last node of
\* the first branch, one plane away
C14_Witness ==
    /\ FirstOfLaterBranch /\ CallReturned
    /\ StoredPrevious /\ PlaneDiff = 1
    /\ Ids(Out) \cap Ids(PrevSlice) # {}

\* --------------------------------------------------------------------
\* box minus offset, coordinate by coordinate
Shifted(box, off) == [r \in 1..2 |-> [i \in 1..2 |-> box[r][i] - off[i]]]

\* intersection(a, b) and intersection(b, a) agree as the claim says
Symmetric(a, b) ==
    LET ab == intersection(a, b)
        ba == intersection(b, a)
    IN  IF ab[1] = None \/ ba[1] = None
        THEN ab = <<None, None, None>> /\ ba = <<None, None, None>>
        ELSE /\ ab[1] = ba[1]
             /\ ab[2] = Some(Shifted(ab[1][1], a[1]))
             /\ ab[3] = Some(Shifted(ab[1][1], b[1]))
             /\ ba[2] = ab[3]
             /\ ba[3] = ab[2]

\* C15: for the in-plane boxes a call intersects (the current roi and the
\* stored one), intersection(a, b) and intersection(b, a) are both without
\* result or give the same absolute box; each relative box is the absolute
\* one minus the minimum of the input it is relative to, so the second and
\* third components swap with the arguments.
C15_IntersectSymmetry ==
    (Called /\ Pre.previous_roi # None) => Symmetric(Roi2d(CurRoi), Roi2d(PrevRoi))

\* a call whose boxes overlap in part and start at different places
C15_Witness ==
    /\ Called /\ StoredPrevious /\ BoxesIntersect
    /\ CurRoi[1][1] # PrevRoi[1][1]
    /\ CurRoi[2][1] # PrevRoi[2][1]

\* --------------------------------------------------------------------
NonzeroPixels(a) == {p \in DOMAIN a.data : a.data[p] # 0}

RECURSIVE SumOfSizes(_)
SumOfSizes(rs) ==
    IF rs = {} THEN 0
    ELSE LET row == CHOOSE x \in rs : TRUE
         IN  row.size_px + SumOfSizes(rs \ {row})

\* the rows rs hold one row per nonzero id of image a, sized by its pixels
OneRowPerId(rs, a) ==
    /\ {row.synapse_id : row \in rs} = Ids(a)
    /\ Cardinality(rs) = Cardinality(Ids(a))
    /\ \A row \in rs :
          row.size_px = Cardinality({p \in DOMAIN a.data : a.data[p] = row.synapse_id})
    /\ SumOfSizes(rs) = Cardinality(NonzeroPixels(a))
    /\ Values(a) = {0} => rs = {}

\* C16: called on the image normalize_synapse_ids returned (for a raw image
\* without negative value), write_synapses writes exactly one row per
\* distinct nonzero id of the image, with the id's pixel count as its size,
\* so that the sizes add up to the number of nonzero pixels, and no row for
\* an all-zero image; the call leaves the image and the relabeler alone.
C16_OneRecordPerLabel ==
    [][(pc = "write" /\ \A v \in Values(Raw) : v >= 0) =>
          /\ synapse_cc_xyz' = synapse_cc_xyz
          /\ relabeler' = relabeler
          /\ OneRowPerId(rows', synapse_cc_xyz[1])]_vars

\* --------------------------------------------------------------------
\* C17: in a continuity relabel, a raw label that overlaps two or more
\* previous objects inside the intersecting region gets the largest of their
\* ids on all its pixels, and no new id is allocated for it.
C17_MergeTieBreak ==
    (CallReturned /\ ContinuityCall /\ WellFormed(Raw, CurRoi)) =>
        \A l \in Ids(Raw) :
            Cardinality(TouchedBy(l)) >= 2 =>
                /\ OutIdsOf(l) = {Max(TouchedBy(l))}
                /\ max_label = Pre.max_label +
                       Cardinality({m \in Ids(Raw) : TouchedBy(m) = {} /\ OutIdsOf(m) # {0}})

\* a raw label lying over two previous objects, next to one that is new
C17_Witness ==
    /\ CallReturned /\ ContinuityCall /\ WellFormed(Raw, CurRoi)
    /\ \E l \in Ids(Raw) : Cardinality(TouchedBy(l)) >= 2
    /\ CurRoi[1][1] # PrevRoi[1][1]

\* --------------------------------------------------------------------
\* the raw labels that overlap no previous object, and the place of such a
\* label among them in ascending order
Unclaimed == {l \in Ids(Raw) : TouchedBy(l) = {}}
UnclaimedRank(l) == Cardinality({m \in Unclaimed : m <= l})

\* C18: a continuity relabel maps the raw labels as a whole: all pixels of a
\* raw label get one id, inside the intersecting region or outside it; the
\* raw labels that overlap no previous object get the new ids max_label+1,
\* max_label+2, ... in ascending label order; and the returned image with
\* the current box is stored as the previous.
C18_WholeSliceMapping ==
    (CallReturned /\ ContinuityCall /\ WellFormed(Raw, CurRoi)) =>
        /\ \A l \in Ids(Raw) : Cardinality(OutIdsOf(l)) = 1
        /\ \A l \in Unclaimed : OutIdsOf(l) = {Pre.max_label + UnclaimedRank(l)}
        /\ previous_slice = Some(Out)
        /\ previous_roi = Some(CurRoi)

\* --------------------------------------------------------------------
\* C19: after any sequence of calls that returned, the nonzero ids emitted
\* so far are exactly 1..max_label: every increment of max_label is an id of
\* the image the call returned, and no id is skipped.
C19_ConsecutiveIds ==
    emitted = 1..max_label

\* the same, step by step, for the calls on raw images without negative
\* value: such a call keeps the emitted ids equal to 1..max_label, also when
\* the raw labels of the slice are not consecutive
ConsecutiveIds_ValidLabels ==
    (/\ CallReturned
     /\ \A v \in Values(Raw) : v >= 0
     /\ call[1].emitted = 1..Pre.max_label) =>
        /\ emitted = 1..max_label
        /\ (Pre.max_label + 1)..max_label \subseteq Ids(Out)

\* --------------------------------------------------------------------
\* C20: in the image a call returns, on the fresh or on the continuity path,
\* a pixel is 0 exactly where the raw pixel is 0, also when the current raw
\* image has no background pixel at all.  (Stated for a raw image that fits
\* its box and holds no negative value.)
C20_BackgroundPreserved ==
    (CallReturned /\ WellFormed(Raw, CurRoi)) =>
        \A p \in DOMAIN Raw.data : Out.data[p] = 0 <=> Raw.data[p] = 0

\* --------------------------------------------------------------------
\* C21: every nonzero id of the image a call returns either occurs in the
\* previous slice stored when the call began or is greater than the
\* max_label the call began with; hence an id that had been handed out and
\* was missing from the image some earlier call returned is in no image
\* returned later.
C21_InheritedFromPreviousOnly ==
    CallReturned =>
        /\ \A id \in Ids(Out) :
              \/ StoredPrevious /\ id \in Ids(PrevSlice)
              \/ id > Pre.max_label
        /\ Ids(Out) \cap call[1].retired = {}

\* a call that continues one object of the stored previous slice after an
\* earlier object has ended
C21_Witness ==
    /\ CallReturned /\ ContinuityCall /\ WellFormed(Raw, CurRoi)
    /\ 0 \in Values(Raw)
    /\ call[1].retired # {}
    /\ Ids(Out) \cap Ids(PrevSlice) # {}

====
